---- MODULE Spec2Model ----
(***************************************************************************)
(* approx-derive: the derive macros AbsDiffEq and RelativeEq (src/lib.rs). *)
(* The macro input is a struct definition with `#[approx(...)]`            *)
(* annotations; the macro output is a token stream holding the generated   *)
(* trait implementations or a compile_error.  Token streams are modelled   *)
(* as structured records, and the generated predicates are run by an       *)
(* interpreter of the emitted comparisons.                                 *)
(*                                                                         *)
(* Numbers are fixed-point: an integer n stands for n / Scale.             *)
(***************************************************************************)
EXTENDS Integers, Sequences, FiniteSets, TLC

\* ------------------------------------------------------------------ bounds
MaxFields == 2      \* structs have 0 .. MaxFields fields
MaxTick   == 2      \* run-time field values are 0 .. MaxTick grains
F32Grain  == 2      \* an f32 holds the multiples of F32Grain only
Scale     == 10000  \* ticks per unit: 1e-4 is one tick

\* ------------------------------------------------------------------ types
Types == {"f32", "f64"}

\* A raw `#[approx(key)]` / `#[approx(key = value)]` entry.  `has` tells
\* whether a value was written; the value is an expression (num) or a type (ty).
Flag(k)       == [key |-> k, has |-> FALSE, num |-> 0, ty |-> ""]
KeyNum(k, n)  == [key |-> k, has |-> TRUE,  num |-> n, ty |-> ""]
KeyTy(k, t)   == [key |-> k, has |-> TRUE,  num |-> 0, ty |-> t]

NoneNum    == [some |-> FALSE, num |-> 0]
SomeNum(n) == [some |-> TRUE,  num |-> n]
NoneTy     == [some |-> FALSE, ty |-> ""]
SomeTy(t)  == [some |-> TRUE,  ty |-> t]

\* ------------------------------------------------- args_parsing (from spec)
StructKeys     == {"default_epsilon", "default_max_relative", "epsilon_type"}
FieldFlagKeys  == {"skip", "cast_field", "cast_value"}
FieldValueKeys == {"static_epsilon", "static_max_relative"}

NoErr == [kind |-> "", key |-> "", at |-> 0]
\* `at` locates the error: 0 is the struct itself, i > 0 the i-th field.
MkErr(kind, key, at) == [kind |-> kind, key |-> key, at |-> at]

StructArgsDefault ==
    [epsilon_type               |-> NoneTy,
     default_epsilon_value      |-> NoneNum,
     default_max_relative_value |-> NoneNum]

RECURSIVE StructArgsFold(_, _, _)
StructArgsFold(attrs, i, acc) ==
    IF i > Len(attrs) THEN [ok |-> TRUE, args |-> acc, err |-> NoErr]
    ELSE LET a == attrs[i] IN
         IF a.key \notin StructKeys
         THEN [ok |-> FALSE, args |-> StructArgsDefault,
               err |-> MkErr("UnrecognizedAttribute", a.key, 0)]
         ELSE IF ~a.has
         THEN [ok |-> FALSE, args |-> StructArgsDefault,
               err |-> MkErr("MalformedAttributeValue", a.key, 0)]
         ELSE StructArgsFold(attrs, i + 1,
                CASE a.key = "epsilon_type" ->
                       [acc EXCEPT !.epsilon_type = SomeTy(a.ty)]
                  [] a.key = "default_epsilon" ->
                       [acc EXCEPT !.default_epsilon_value = SomeNum(a.num)]
                  [] OTHER ->
                       [acc EXCEPT !.default_max_relative_value = SomeNum(a.num)])

StructArgs_from_attrs(attrs) == StructArgsFold(attrs, 1, StructArgsDefault)

FieldArgsDefault ==
    [skip                      |-> FALSE,
     cast_strategy             |-> "None",
     epsilon_static_value      |-> NoneNum,
     max_relative_static_value |-> NoneNum]

RECURSIVE FieldArgsFold(_, _, _, _)
FieldArgsFold(attrs, i, acc, at) ==
    IF i > Len(attrs) THEN [ok |-> TRUE, args |-> acc, err |-> NoErr]
    ELSE LET a == attrs[i] IN
         IF a.key \notin (FieldFlagKeys \cup FieldValueKeys)
         THEN [ok |-> FALSE, args |-> FieldArgsDefault,
               err |-> MkErr("UnrecognizedAttribute", a.key, at)]
         ELSE IF (a.key \in FieldFlagKeys) = a.has
         THEN [ok |-> FALSE, args |-> FieldArgsDefault,
               err |-> MkErr("MalformedAttributeValue", a.key, at)]
         ELSE IF a.key \in {"cast_field", "cast_value"} /\ acc.cast_strategy # "None"
                 /\ acc.cast_strategy # (IF a.key = "cast_field" THEN "CastField" ELSE "CastValue")
         THEN [ok |-> FALSE, args |-> FieldArgsDefault,
               err |-> MkErr("ConflictingCastStrategy", a.key, at)]
         ELSE FieldArgsFold(attrs, i + 1,
                CASE a.key = "skip" -> [acc EXCEPT !.skip = TRUE]
                  [] a.key = "cast_field" -> [acc EXCEPT !.cast_strategy = "CastField"]
                  [] a.key = "cast_value" -> [acc EXCEPT !.cast_strategy = "CastValue"]
                  [] a.key = "static_epsilon" ->
                       [acc EXCEPT !.epsilon_static_value = SomeNum(a.num)]
                  [] OTHER ->
                       [acc EXCEPT !.max_relative_static_value = SomeNum(a.num)],
                at)

\* FieldWithArgs { field, args }: the field keeps its ident and declared type.
FieldWithArgs_from_field(field) ==
    LET r == FieldArgsFold(field.attrs, 1, FieldArgsDefault, field.ident) IN
    [ok |-> r.ok, err |-> r.err,
     val |-> [field |-> [ident |-> field.ident, ty |-> field.ty], args |-> r.args]]

\* ------------------------------------------ impl Parse for AbsDiffEqParser
ParsedDefault ==
    [struct_args |-> StructArgsDefault, fields_with_args |-> << >>]

\* .map(from_field).collect::<syn::Result<Vec<_>>>(): the fields are taken in
\* order and the first Err ends the iteration and is the result.
RECURSIVE CollectFields(_, _, _)
CollectFields(fields, i, acc) ==
    IF i > Len(fields) THEN [ok |-> TRUE, val |-> acc, err |-> NoErr]
    ELSE LET r == FieldWithArgs_from_field(fields[i]) IN
         IF ~r.ok THEN [ok |-> FALSE, val |-> << >>, err |-> r.err]
         ELSE CollectFields(fields, i + 1, Append(acc, r.val))

\* Variant: the fields are parsed before the struct's own annotations.
AbsDiffEqParser_parse_fields_first(in) ==
    IF ~in.syntax_ok
    THEN [ok |-> FALSE, val |-> ParsedDefault,
          err |-> MkErr("MalformedTypeDefinition", "", 0)]
    ELSE LET fs == CollectFields(in.fields, 1, << >>) IN
         IF ~fs.ok THEN [ok |-> FALSE, val |-> ParsedDefault, err |-> fs.err]
         ELSE LET sa == StructArgs_from_attrs(in.attrs) IN
              IF ~sa.ok THEN [ok |-> FALSE, val |-> ParsedDefault, err |-> sa.err]
              ELSE [ok |-> TRUE, err |-> NoErr,
                    val |-> [struct_args |-> sa.args, fields_with_args |-> fs.val]]

AbsDiffEqParser_parse(in) ==
    IF ~in.syntax_ok
    THEN [ok |-> FALSE, val |-> ParsedDefault,
          err |-> MkErr("MalformedTypeDefinition", "", 0)]
    ELSE LET sa == StructArgs_from_attrs(in.attrs) IN
         IF ~sa.ok THEN [ok |-> FALSE, val |-> ParsedDefault, err |-> sa.err]
         ELSE LET fs == CollectFields(in.fields, 1, << >>) IN
              IF ~fs.ok THEN [ok |-> FALSE, val |-> ParsedDefault, err |-> fs.err]
              ELSE [ok |-> TRUE, err |-> NoErr,
                    val |-> [struct_args |-> sa.args, fields_with_args |-> fs.val]]

\* ------------------------------------------------------- emitted tokens
\* Expressions of the generated code: the argument `epsilon` / `max_relative`,
\* a literal written in an annotation, or the associated constant `T::EPSILON`;
\* `cast` is the type of a trailing `as T` ("" when there is none).
NoExpr       == [src |-> "",      name |-> "", num |-> 0, cast |-> ""]
ArgExpr(n)   == [src |-> "arg",   name |-> n,  num |-> 0, cast |-> ""]
LitExpr(n)   == [src |-> "lit",   name |-> "", num |-> n, cast |-> ""]
ConstExpr(t) == [src |-> "const", name |-> t,  num |-> 0, cast |-> ""]
AsType(e, t) == [e EXCEPT !.cast = t]
\* `&self.f`, `&other.f`, `&(self.f as T)`, `&(other.f as T)`
FieldRef(recv, ident, cast) == [recv |-> recv, ident |-> ident, cast |-> cast]

\* ---------------------------------------------------------- AbsDiffEqParser
\* Variant: the struct-level epsilon_type is not consulted.
get_epsilon_type_first_field(p) ==
    IF Len(p.fields_with_args) > 0 THEN p.fields_with_args[1].field.ty
    ELSE "f64"

get_epsilon_type(p) ==
    IF p.struct_args.epsilon_type.some THEN p.struct_args.epsilon_type.ty
    ELSE IF Len(p.fields_with_args) > 0 THEN p.fields_with_args[1].field.ty
    ELSE "f64"

get_epsilon_type_and_default_value(p) ==
    LET epsilon_type == get_epsilon_type(p) IN
    [epsilon_type |-> epsilon_type,
     epsilon_default_value |->
        IF p.struct_args.default_epsilon_value.some
        THEN LitExpr(p.struct_args.default_epsilon_value.num)
        ELSE ConstExpr(epsilon_type)]

get_max_relative_default_value(p) ==
    LET epsilon_type == get_epsilon_type(p) IN
    IF p.struct_args.default_max_relative_value.some
    THEN LitExpr(p.struct_args.default_max_relative_value.num)
    ELSE ConstExpr(epsilon_type)

NoFieldFormatted ==
    [some |-> FALSE, base_type |-> "",
     own_field |-> FieldRef("", 0, ""), other_field |-> FieldRef("", 0, ""),
     epsilon |-> NoExpr, max_relative |-> NoExpr]

format_field_impl(p, fwa) ==
    IF fwa.args.skip THEN NoFieldFormatted
    ELSE
    LET epsilon_type  == get_epsilon_type(p)
        field_name    == fwa.field.ident
        field_type    == fwa.field.ty
        cast_strategy == fwa.args.cast_strategy
        epsilon       == IF fwa.args.epsilon_static_value.some
                         THEN LitExpr(fwa.args.epsilon_static_value.num)
                         ELSE ArgExpr("epsilon")
        max_relative  == IF fwa.args.max_relative_static_value.some
                         THEN LitExpr(fwa.args.max_relative_static_value.num)
                         ELSE ArgExpr("max_relative")
    IN CASE cast_strategy = "CastField" ->
              [some |-> TRUE, base_type |-> epsilon_type,
               own_field    |-> FieldRef("self", field_name, epsilon_type),
               other_field  |-> FieldRef("other", field_name, epsilon_type),
               epsilon      |-> epsilon,
               max_relative |-> max_relative]
         [] cast_strategy = "CastValue" ->
              [some |-> TRUE, base_type |-> field_type,
               own_field    |-> FieldRef("self", field_name, ""),
               other_field  |-> FieldRef("other", field_name, ""),
               epsilon      |-> AsType(epsilon, field_type),
               max_relative |-> AsType(max_relative, field_type)]
         [] OTHER ->
              [some |-> TRUE, base_type |-> epsilon_type,
               own_field    |-> FieldRef("self", field_name, ""),
               other_field  |-> FieldRef("other", field_name, ""),
               epsilon      |-> epsilon,
               max_relative |-> max_relative]

\* Variants of format_field with one slip each.
\* ... `skip` never looked at
format_field_no_skip(p, fwa) ==
    format_field_impl(p, [fwa EXCEPT !.args.skip = FALSE])

\* ... `skip` honoured only on a field without a cast strategy
format_field_skip_unless_cast(p, fwa) ==
    format_field_impl(p,
        [fwa EXCEPT !.args.skip = fwa.args.skip /\ fwa.args.cast_strategy = "None"])

\* ... the static epsilon dropped in favour of the caller's
format_field_no_static(p, fwa) ==
    format_field_impl(p, [fwa EXCEPT !.args.epsilon_static_value = NoneNum])

\* ... CastValue leaving the tolerances uncast
format_field_cast_value_plain(p, fwa) ==
    LET r == format_field_impl(p, fwa) IN
    IF r.some /\ fwa.args.cast_strategy = "CastValue"
    THEN [r EXCEPT !.epsilon.cast = "", !.max_relative.cast = ""]
    ELSE r

format_field(p, fwa) == format_field_impl(p, fwa)

\* One `<base as Trait>::f(own, other, epsilon[, max_relative]) &&` of the body.
Comparison(trait, ff, with_max_relative) ==
    [trait |-> trait, base_type |-> ff.base_type,
     own_field |-> ff.own_field, other_field |-> ff.other_field,
     epsilon |-> ff.epsilon,
     max_relative |-> IF with_max_relative THEN ff.max_relative ELSE NoExpr]

RECURSIVE FilterMapFields(_, _, _, _)
FilterMapFields(p, i, trait, with_max_relative) ==
    IF i > Len(p.fields_with_args) THEN << >>
    ELSE LET ff == format_field(p, p.fields_with_args[i]) IN
         (IF ff.some THEN << Comparison(trait, ff, with_max_relative) >> ELSE << >>)
         \o FilterMapFields(p, i + 1, trait, with_max_relative)

\* Variant: `.first()` in place of `.iter()`, one comparison at most.
get_abs_diff_eq_fields_first_only(p) ==
    LET all == FilterMapFields(p, 1, "AbsDiffEq", FALSE) IN
    IF Len(all) > 1 THEN SubSeq(all, 1, 1) ELSE all

get_abs_diff_eq_fields(p) == FilterMapFields(p, 1, "AbsDiffEq", FALSE)

get_rel_eq_fields(p) == FilterMapFields(p, 1, "RelativeEq", TRUE)

\* impl approx::AbsDiffEq for S { type Epsilon; fn default_epsilon; fn abs_diff_eq }
\* The body of the predicate is `#(#fields)* true`: the comparisons, then `tail`.
implement_derive_abs_diff_eq(p) ==
    LET tv == get_epsilon_type_and_default_value(p) IN
    [trait |-> "AbsDiffEq", Epsilon |-> tv.epsilon_type,
     default |-> tv.epsilon_default_value,
     fields |-> get_abs_diff_eq_fields(p), tail |-> TRUE]

\* impl approx::RelativeEq for S { fn default_max_relative; fn relative_eq }
\* Its `Self::Epsilon` is the one of the AbsDiffEq implementation.
implement_derive_rel_diff_eq(p) ==
    [trait |-> "RelativeEq", Epsilon |-> "Self::Epsilon",
     default |-> get_max_relative_default_value(p),
     fields |-> get_rel_eq_fields(p), tail |-> TRUE]

\* --------------------------------------------------------- the two macros
Pending == [kind |-> "pending", impls |-> << >>, err |-> NoErr]
\* syn::parse_macro_input! returns the error's compile_error tokens.
CompileError(e) == [kind |-> "compile_error", impls |-> << >>, err |-> e]
Tokens(impls) == [kind |-> "impls", impls |-> impls, err |-> NoErr]

derive_abs_diff_eq_output(in) ==
    LET parsed == AbsDiffEqParser_parse(in) IN
    IF ~parsed.ok THEN CompileError(parsed.err)
    ELSE Tokens(<< implement_derive_abs_diff_eq(parsed.val) >>)

\* Variant: only the RelativeEq implementation is emitted.
derive_rel_diff_eq_output_rel_only(in) ==
    LET parsed == AbsDiffEqParser_parse(in) IN
    IF ~parsed.ok THEN CompileError(parsed.err)
    ELSE Tokens(<< implement_derive_rel_diff_eq(parsed.val) >>)

derive_rel_diff_eq_output(in) ==
    LET parsed == AbsDiffEqParser_parse(in) IN
    IF ~parsed.ok THEN CompileError(parsed.err)
    ELSE Tokens(<< >> \o << implement_derive_abs_diff_eq(parsed.val) >>
                      \o << implement_derive_rel_diff_eq(parsed.val) >>)

\* ------------------------------------------------ the generated code, run
\* `x as T`: narrowing to f32 rounds to the nearest f32 (ties to even),
\* widening to f64 is exact.
RoundF32(v) ==
    LET q == v \div F32Grain
        r == v % F32Grain
    IN IF 2 * r < F32Grain THEN q * F32Grain
       ELSE IF 2 * r > F32Grain THEN (q + 1) * F32Grain
       ELSE IF q % 2 = 0 THEN q * F32Grain ELSE (q + 1) * F32Grain

Cast(v, t) == IF t = "f32" THEN RoundF32(v) ELSE v

Abs(n) == IF n < 0 THEN -n ELSE n
Max(a, b) == IF a < b THEN b ELSE a

\* approx's implementations for the primitive floats, which the emitted
\* comparisons call.
PrimAbsDiffEq(a, b, epsilon) == Abs(a - b) <= epsilon

\* floor(x * m / Scale) for x, m >= 0, without leaving 32-bit integers
ScaledMul(x, m) == (x \div Scale) * m + ((x % Scale) * m) \div Scale

PrimRelativeEq(a, b, epsilon, max_relative) ==
    \/ a = b
    \/ Abs(a - b) <= epsilon
    \/ Abs(a - b) <= ScaledMul(Max(Abs(a), Abs(b)), max_relative)

DeclaredType(in, ident) == in.fields[ident].ty

\* Type of an operand / of a tolerance expression ("any": an untyped literal).
FieldRefType(in, ref) ==
    IF ref.cast # "" THEN ref.cast ELSE DeclaredType(in, ref.ident)

ExprType(e, epsilon_type) ==
    IF e.cast # "" THEN e.cast
    ELSE IF e.src = "arg" THEN epsilon_type
    ELSE IF e.src = "const" THEN e.name
    ELSE "any"

\* rustc accepts `<B as Trait>::f(&a, &b, e[, m])` for a float B when both
\* operands are B and the tolerances are B (B::Epsilon = B).
ComparisonCompiles(in, epsilon_type, c) ==
    /\ c.base_type \in Types
    /\ FieldRefType(in, c.own_field) = c.base_type
    /\ FieldRefType(in, c.other_field) = c.base_type
    /\ ExprType(c.epsilon, epsilon_type) \in {c.base_type, "any"}
    /\ c.trait = "RelativeEq" =>
          ExprType(c.max_relative, epsilon_type) \in {c.base_type, "any"}

ImplsOf(out, trait) ==
    {out.impls[k] : k \in {j \in 1..Len(out.impls) : out.impls[j].trait = trait}}

\* The output compiles: RelativeEq needs the AbsDiffEq implementation it
\* extends, each trait is implemented at most once, and every default value
\* and comparison is well typed against the AbsDiffEq implementation's Epsilon.
Compiles(in, out) ==
    /\ out.kind = "impls"
    /\ Cardinality(ImplsOf(out, "AbsDiffEq")) = 1
    /\ Len(out.impls) = Cardinality({out.impls[k].trait : k \in 1..Len(out.impls)})
    /\ LET eps == (CHOOSE a \in ImplsOf(out, "AbsDiffEq") : TRUE).Epsilon IN
       /\ eps \in Types
       /\ \A k \in 1..Len(out.impls) :
             /\ ExprType(out.impls[k].default, eps) \in {eps, "any"}
             /\ \A j \in 1..Len(out.impls[k].fields) :
                   ComparisonCompiles(in, eps, out.impls[k].fields[j])

\* Value of a tolerance expression where a `type_at` is expected.
EvalExpr(e, env, type_at) ==
    LET raw == IF e.src = "arg" THEN env[e.name] ELSE e.num
    IN IF e.cast # "" THEN Cast(raw, e.cast)
       ELSE IF e.src = "lit" THEN Cast(raw, type_at)
       ELSE raw

EvalFieldRef(ref, self, other) ==
    LET v == IF ref.recv = "self" THEN self[ref.ident] ELSE other[ref.ident]
    IN IF ref.cast # "" THEN Cast(v, ref.cast) ELSE v

EvalComparison(c, self, other, env) ==
    IF c.trait = "AbsDiffEq"
    THEN PrimAbsDiffEq(EvalFieldRef(c.own_field, self, other),
                       EvalFieldRef(c.other_field, self, other),
                       EvalExpr(c.epsilon, env, c.base_type))
    ELSE PrimRelativeEq(EvalFieldRef(c.own_field, self, other),
                        EvalFieldRef(c.other_field, self, other),
                        EvalExpr(c.epsilon, env, c.base_type),
                        EvalExpr(c.max_relative, env, c.base_type))

\* `c1 && c2 && ... && true`, left to right, stopping at the first false.
RECURSIVE EvalBody(_, _, _, _, _, _)
EvalBody(fields, i, tail, self, other, env) ==
    IF i > Len(fields) THEN tail
    ELSE IF ~EvalComparison(fields[i], self, other, env) THEN FALSE
    ELSE EvalBody(fields, i + 1, tail, self, other, env)

RunPredicate(impl, self, other, epsilon, max_relative) ==
    EvalBody(impl.fields, 1, impl.tail, self, other,
             [epsilon |-> epsilon, max_relative |-> max_relative])

\* ------------------------------------------------------------------ state
VARIABLES
    input,    \* the struct definition handed to the macros
    absOut,   \* output of #[derive(AbsDiffEq)] on input
    relOut,   \* output of #[derive(RelativeEq)] on input
    call      \* the call of a generated function that the run observes

vars == << input, absOut, relOut, call >>

NoCall ==
    [fn |-> "none", self |-> << >>, other |-> << >>,
     epsilon |-> 0, max_relative |-> 0, result |-> FALSE, value |-> NoExpr]

Field(i, ty, attrs) == [ident |-> i, ty |-> ty, attrs |-> attrs]
Struct(attrs, fields) == [syntax_ok |-> TRUE, attrs |-> attrs, fields |-> fields]
Malformed == [syntax_ok |-> FALSE, attrs |-> << >>, fields |-> << >>]

\* Annotation lists a struct / a field may carry, the ill-formed ones included.
StructAttrChoices ==
    { << >>,
      << KeyTy("epsilon_type", "f32") >>,
      << KeyNum("default_epsilon", 10) >>,
      << KeyNum("default_max_relative", 1000) >>,
      << KeyTy("epsilon_type", "f64"), KeyNum("default_epsilon", 10) >>,
      << Flag("epsilon_type") >>,
      << KeyNum("default_eps", 10) >> }

FieldAttrChoices ==
    { << >>,
      << Flag("skip") >>,
      << Flag("cast_field") >>,
      << Flag("cast_value") >>,
      << KeyNum("static_epsilon", 1) >>,
      << KeyNum("static_max_relative", 5000) >>,
      << Flag("skip"), Flag("cast_field"), KeyNum("static_epsilon", 1) >>,
      << Flag("cast_value"), KeyNum("static_epsilon", 1),
         KeyNum("static_max_relative", 5000) >>,
      << Flag("cast_field"), Flag("cast_value") >>,
      << Flag("static_epsilon") >>,
      << Flag("skipp") >> }

StructsOver(structAttrs, fieldAttrs) ==
    { Struct(a, [i \in 1..n |-> Field(i, f[i][1], f[i][2])]) :
        a \in structAttrs,
        n \in 0..MaxFields,
        f \in [1..MaxFields -> Types \X fieldAttrs] }

Inputs == StructsOver(StructAttrChoices, FieldAttrChoices) \cup {Malformed}

Init ==
    /\ input \in Inputs
    /\ absOut = Pending
    /\ relOut = Pending
    /\ call = NoCall

\* ---------------------------------------------------------------- actions
derive_abs_diff_eq ==
    /\ absOut.kind = "pending"
    /\ absOut' = derive_abs_diff_eq_output(input)
    /\ UNCHANGED << input, relOut, call >>

derive_rel_diff_eq ==
    /\ relOut.kind = "pending"
    /\ relOut' = derive_rel_diff_eq_output(input)
    /\ UNCHANGED << input, absOut, call >>

\* <S as AbsDiffEq>::default_epsilon(), of either macro's output
call_default_epsilon ==
    /\ call.fn = "none"
    /\ \E out \in {absOut, relOut} :
         /\ Compiles(input, out)
         /\ \E impl \in ImplsOf(out, "AbsDiffEq") :
              call' = [NoCall EXCEPT !.fn = "default_epsilon", !.value = impl.default]
    /\ UNCHANGED << input, absOut, relOut >>

\* <S as RelativeEq>::default_max_relative()
call_default_max_relative ==
    /\ call.fn = "none"
    /\ Compiles(input, relOut)
    /\ \E impl \in ImplsOf(relOut, "RelativeEq") :
         call' = [NoCall EXCEPT !.fn = "default_max_relative", !.value = impl.default]
    /\ UNCHANGED << input, absOut, relOut >>

\* self.abs_diff_eq(&other, epsilon), of either macro's output
call_abs_diff_eq(self, other, epsilon) ==
    /\ call.fn = "none"
    /\ \E out \in {absOut, relOut} :
         /\ Compiles(input, out)
         /\ \E impl \in ImplsOf(out, "AbsDiffEq") :
              call' = [NoCall EXCEPT !.fn = "abs_diff_eq",
                         !.self = self, !.other = other, !.epsilon = epsilon,
                         !.result = RunPredicate(impl, self, other, epsilon, 0)]
    /\ UNCHANGED << input, absOut, relOut >>

\* self.relative_eq(&other, epsilon, max_relative)
call_relative_eq(self, other, epsilon, max_relative) ==
    /\ call.fn = "none"
    /\ Compiles(input, relOut)
    /\ \E impl \in ImplsOf(relOut, "RelativeEq") :
         call' = [NoCall EXCEPT !.fn = "relative_eq",
                    !.self = self, !.other = other,
                    !.epsilon = epsilon, !.max_relative = max_relative,
                    !.result = RunPredicate(impl, self, other, epsilon, max_relative)]
    /\ UNCHANGED << input, absOut, relOut >>

Next ==
    \/ derive_abs_diff_eq
    \/ derive_rel_diff_eq
    \/ call_default_epsilon
    \/ call_default_max_relative

Spec == Init /\ [][Next]_vars

\* ------------------------------------------- running the generated code
\* The structs of the crate documentation's examples, in ticks of 1e-4.
Position == Struct(<< >>, << Field(1, "f64", << >>), Field(2, "f64", << >>) >>)

Rectangle ==
    Struct(<< >>, << Field(1, "f64", << KeyNum("static_epsilon", 500) >>),
                     Field(2, "f64", << >>),
                     Field(3, "f64", << KeyNum("static_epsilon", 700) >>) >>)

\* Field values and epsilons the examples use (p1/p2, r1/r2).
DocFieldValues(in) ==
    IF in = Position THEN << {10100, 9900}, {23600, 23800} >>
    ELSE IF in = Rectangle
    THEN << {1000100, 999700}, {400001, 400005}, {300550, 300490} >>
    ELSE [i \in 1..Len(in.fields) |-> {}]

DocEpsilons(in) ==
    IF in = Position THEN {210, 190}
    ELSE IF in = Rectangle THEN {1000, 100, 10, 1}
    ELSE {}

\* Well-formed annotation lists: only they yield code that can be run.
RunStructAttrChoices == { << >>, << KeyTy("epsilon_type", "f32") >> }

RunFieldAttrChoices ==
    { << >>,
      << Flag("skip") >>,
      << Flag("cast_field") >>,
      << Flag("cast_value") >>,
      << KeyNum("static_epsilon", 1) >>,
      << Flag("skip"), Flag("cast_field"), KeyNum("static_epsilon", 1) >>,
      << Flag("cast_value"), KeyNum("static_epsilon", 1),
         KeyNum("static_max_relative", 5000) >> }

RunInputs ==
    StructsOver(RunStructAttrChoices, RunFieldAttrChoices) \cup {Position, Rectangle}

\* The values a variable of type t holds.
ValuesOf(t) == {v \in 0..MaxTick : Cast(v, t) = v}

FieldValues(in, i) ==
    IF DocFieldValues(in)[i] # {} THEN DocFieldValues(in)[i]
    ELSE ValuesOf(in.fields[i].ty)

StructValues(in) ==
    {v \in [1..Len(in.fields) -> UNION {FieldValues(in, i) : i \in 1..Len(in.fields)}] :
        \A i \in 1..Len(in.fields) : v[i] \in FieldValues(in, i)}

\* The Epsilon type the compiled output declares.
EpsilonOf(out) == (CHOOSE a \in ImplsOf(out, "AbsDiffEq") : TRUE).Epsilon

EpsilonValues(in, t) ==
    IF DocEpsilons(in) # {} THEN DocEpsilons(in) ELSE ValuesOf(t)

MaxRelativeValues(t) == {0, Cast(Scale \div 2, t)}

InitRun ==
    /\ input \in RunInputs
    /\ absOut = Pending
    /\ relOut = Pending
    /\ call = NoCall

NextRun ==
    \/ derive_abs_diff_eq
    \/ derive_rel_diff_eq
    \/ \E out \in {absOut, relOut} :
         /\ call.fn = "none"
         /\ Compiles(input, out)
         /\ \E self \in StructValues(input), other \in StructValues(input),
               epsilon \in EpsilonValues(input, EpsilonOf(out)) :
              call_abs_diff_eq(self, other, epsilon)
    \/ /\ call.fn = "none"
       /\ Compiles(input, relOut)
       /\ \E self \in StructValues(input), other \in StructValues(input),
             epsilon \in EpsilonValues(input, EpsilonOf(relOut)),
             max_relative \in MaxRelativeValues(EpsilonOf(relOut)) :
            call_relative_eq(self, other, epsilon, max_relative)

SpecRun == InitRun /\ [][NextRun]_vars

\* ================================================================= claims
\* What the struct definition itself declares, read off the raw annotations.
RawKeys(attrs) == {attrs[k].key : k \in 1..Len(attrs)}
RawEntry(attrs, key) == attrs[CHOOSE k \in 1..Len(attrs) : attrs[k].key = key]
DeclSkipped(in, i) == "skip" \in RawKeys(in.fields[i].attrs)
Compared(in) == {i \in 1..Len(in.fields) : ~DeclSkipped(in, i)}
DeclStaticEpsilon(in, i) == "static_epsilon" \in RawKeys(in.fields[i].attrs)
DeclEpsilonType(in) ==
    IF "epsilon_type" \in RawKeys(in.attrs) THEN RawEntry(in.attrs, "epsilon_type").ty
    ELSE IF Len(in.fields) > 0 THEN in.fields[1].ty
    ELSE "f64"
Emitted == {out \in {absOut, relOut} : out.kind = "impls"}
Delta(i) == Abs(call.self[i] - call.other[i])

\* The absolute-difference comparison field i declares.
RefAbsField(in, i, self, other, epsilon) ==
    LET a == in.fields[i].attrs
        T == in.fields[i].ty
        E == DeclEpsilonType(in)
    IN IF "cast_field" \in RawKeys(a)
       THEN Abs(Cast(self[i], E) - Cast(other[i], E))
              <= (IF DeclStaticEpsilon(in, i)
                  THEN Cast(RawEntry(a, "static_epsilon").num, E) ELSE epsilon)
       ELSE IF "cast_value" \in RawKeys(a)
       THEN Abs(self[i] - other[i])
              <= Cast(IF DeclStaticEpsilon(in, i)
                      THEN RawEntry(a, "static_epsilon").num ELSE epsilon, T)
       ELSE Abs(self[i] - other[i])
              <= (IF DeclStaticEpsilon(in, i)
                  THEN Cast(RawEntry(a, "static_epsilon").num, E) ELSE epsilon)

\* C1: abs_diff_eq(self, other, epsilon) is true iff the absolute-difference
\* comparison of every non-skipped field is true, the comparisons being
\* emitted in declaration order; for Position with deltas 0.02 and 0.02 it
\* is true at epsilon 0.021 and false at epsilon 0.019.
C1_AbsDiffEqIsConjunction ==
    /\ call.fn = "abs_diff_eq" =>
         /\ call.result =
              (\A i \in Compared(input) :
                  RefAbsField(input, i, call.self, call.other, call.epsilon))
         /\ (input = Position /\ Delta(1) = 200 /\ Delta(2) = 200) =>
              /\ call.epsilon = 210 => call.result
              /\ call.epsilon = 190 => ~call.result
    /\ \A out \in Emitted : \A impl \in ImplsOf(out, "AbsDiffEq") :
         /\ Len(impl.fields) = Cardinality(Compared(input))
         /\ \A j \in 1..Len(impl.fields), k \in 1..Len(impl.fields) :
              j < k => impl.fields[j].own_field.ident < impl.fields[k].own_field.ident

C1_Witness ==
    /\ call.fn = "abs_diff_eq"
    /\ input = Position
    /\ call.self = << 10100, 23600 >>
    /\ call.other = << 9900, 23800 >>
    /\ call.epsilon = 190
    /\ ~call.result

\* C2: with zero fields, or every field skipped, abs_diff_eq and relative_eq
\* return true whatever the operands and the tolerances.
C2_NothingComparedIsEqual ==
    (Compared(input) = {} /\ call.fn \in {"abs_diff_eq", "relative_eq"})
        => call.result

C2_Witness ==
    /\ call.fn = "relative_eq"
    /\ Len(input.fields) = 2
    /\ Compared(input) = {}
    /\ call.self # call.other
    /\ call.epsilon = 0
    /\ call.max_relative = 0
    /\ call.result

\* C5: a non-skipped field with static_epsilon is compared the same whatever
\* epsilon the caller passes, and when every non-skipped field has one, so is
\* the whole abs_diff_eq.
C5_StaticEpsilonIgnoresCaller ==
    call.fn = "abs_diff_eq" =>
      \A out \in Emitted : \A impl \in ImplsOf(out, "AbsDiffEq") :
        \A e \in EpsilonValues(input, impl.Epsilon) :
          /\ \A j \in 1..Len(impl.fields) :
               DeclStaticEpsilon(input, impl.fields[j].own_field.ident) =>
                 EvalComparison(impl.fields[j], call.self, call.other,
                                [epsilon |-> e, max_relative |-> 0])
                 = EvalComparison(impl.fields[j], call.self, call.other,
                                  [epsilon |-> call.epsilon, max_relative |-> 0])
          /\ (\A i \in Compared(input) : DeclStaticEpsilon(input, i)) =>
               RunPredicate(impl, call.self, call.other, e, 0) = call.result

C5_Witness ==
    /\ call.fn = "abs_diff_eq"
    /\ Compared(input) # {}
    /\ \A i \in Compared(input) : DeclStaticEpsilon(input, i)
    /\ \E i \in Compared(input) : Delta(i) > call.epsilon
    /\ call.result

\* C6 as stated: Rectangle with deltas 0.04, 0.0004, 0.006 compares equal at
\* the caller's epsilon 1e-4.
C6_Original ==
    (/\ call.fn = "abs_diff_eq"
     /\ input = Rectangle
     /\ Delta(1) = 400 /\ Delta(2) = 4 /\ Delta(3) = 60
     /\ call.epsilon = 1)
        => call.result

\* C6 amended: Rectangle with deltas 0.04, 0.0004, 0.006 compares equal at
\* the caller's epsilon 1e-3 (and 1e-2, 1e-1), the static epsilons of a and c
\* overriding it, and unequal at 1e-4, which b's delta 0.0004 exceeds.
C6_RectangleScenario ==
    (/\ call.fn = "abs_diff_eq"
     /\ input = Rectangle
     /\ Delta(1) = 400 /\ Delta(2) = 4 /\ Delta(3) = 60)
        => /\ call.epsilon \in {10, 100, 1000} => call.result
           /\ call.epsilon = 1 => ~call.result

C6_Witness ==
    /\ call.fn = "abs_diff_eq"
    /\ input = Rectangle
    /\ Delta(1) = 400 /\ Delta(2) = 4 /\ Delta(3) = 60
    /\ call.epsilon = 10
    /\ call.result

\* The struct with every skipped field's annotations reduced to `skip`.
OnlySkip(in) ==
    [in EXCEPT !.fields =
        [i \in 1..Len(in.fields) |->
            IF DeclSkipped(in, i)
            THEN [in.fields[i] EXCEPT !.attrs = << Flag("skip") >>]
            ELSE in.fields[i]]]

SameOutsideSkipped(in, v, w) == \A i \in Compared(in) : v[i] = w[i]

\* C10: a skipped field contributes no comparison to abs_diff_eq or
\* relative_eq, its other annotations change nothing in the output, and the
\* predicates' results do not depend on its values.
C10_SkippedFieldIsAbsent ==
    /\ \A out \in Emitted : \A k \in 1..Len(out.impls) :
         /\ Len(out.impls[k].fields) = Cardinality(Compared(input))
         /\ \A j \in 1..Len(out.impls[k].fields) :
              /\ out.impls[k].fields[j].own_field.ident \in Compared(input)
              /\ out.impls[k].fields[j].other_field.ident \in Compared(input)
    /\ absOut.kind = "impls" => absOut = derive_abs_diff_eq_output(OnlySkip(input))
    /\ relOut.kind = "impls" => relOut = derive_rel_diff_eq_output(OnlySkip(input))
    /\ (call.fn \in {"abs_diff_eq", "relative_eq"} /\ Compared(input) # 1..Len(input.fields)) =>
         \A out \in Emitted :
           \A impl \in ImplsOf(out, IF call.fn = "abs_diff_eq" THEN "AbsDiffEq" ELSE "RelativeEq") :
             \A s \in StructValues(input), o \in StructValues(input) :
               (SameOutsideSkipped(input, s, call.self) /\ SameOutsideSkipped(input, o, call.other))
                  => RunPredicate(impl, s, o, call.epsilon, call.max_relative) = call.result

C10_Witness ==
    /\ call.fn = "relative_eq"
    /\ Len(input.fields) = 2
    /\ Compared(input) = {1}
    /\ {"cast_field", "static_epsilon"} \subseteq RawKeys(input.fields[2].attrs)
    /\ call.self[2] # call.other[2]
    /\ call.epsilon = 0
    /\ call.max_relative = 0
    /\ call.result

\* C3: the Epsilon type is the struct-level epsilon_type if given, else the
\* declared type of the first field, else (no fields) f64.
C3_EpsilonTypeResolution ==
    \A out \in Emitted :
       /\ ImplsOf(out, "AbsDiffEq") # {}
       /\ \A impl \in ImplsOf(out, "AbsDiffEq") :
            impl.Epsilon =
              (IF "epsilon_type" \in RawKeys(input.attrs)
               THEN RawEntry(input.attrs, "epsilon_type").ty
               ELSE IF Len(input.fields) > 0 THEN input.fields[1].ty
               ELSE "f64")

C3_Witness ==
    /\ absOut.kind = "impls"
    /\ relOut.kind = "impls"
    /\ "epsilon_type" \in RawKeys(input.attrs)
    /\ Len(input.fields) > 0
    /\ input.fields[1].ty # RawEntry(input.attrs, "epsilon_type").ty

\* C4: with no fields, or a sole field that is skipped, and no epsilon_type
\* or default_epsilon, default_epsilon() is f64::EPSILON.
C4_DefaultEpsilonFallsBackToF64 ==
    (/\ call.fn = "default_epsilon"
     /\ RawKeys(input.attrs) \cap {"epsilon_type", "default_epsilon"} = {}
     /\ \/ Len(input.fields) = 0
        \/ Len(input.fields) = 1 /\ DeclSkipped(input, 1))
        => call.value = ConstExpr("f64")

\* C7: derive(RelativeEq) emits an AbsDiffEq and a RelativeEq implementation,
\* its AbsDiffEq implementation is the one derive(AbsDiffEq) emits for the
\* same input, and derive(AbsDiffEq) emits no RelativeEq implementation.
C7_RelativeEqExtendsAbsDiffEq ==
    /\ relOut.kind = "impls" =>
         /\ Len(relOut.impls) = 2
         /\ Cardinality(ImplsOf(relOut, "AbsDiffEq")) = 1
         /\ Cardinality(ImplsOf(relOut, "RelativeEq")) = 1
    /\ absOut.kind = "impls" =>
         /\ Len(absOut.impls) = 1
         /\ ImplsOf(absOut, "RelativeEq") = {}
    /\ (relOut.kind = "impls" /\ absOut.kind = "impls") =>
         ImplsOf(relOut, "AbsDiffEq") = ImplsOf(absOut, "AbsDiffEq")
    /\ (relOut.kind # "pending" /\ absOut.kind # "pending") =>
         relOut.kind = absOut.kind

C7_Witness ==
    /\ relOut.kind = "impls"
    /\ absOut.kind = "impls"
    /\ Len(input.fields) = 2
    /\ Compared(input) = {1, 2}
    /\ \E i \in {1, 2} : DeclStaticEpsilon(input, i)

\* The first failure of the annotations: the struct's, else the first
\* failing field's.
StructAnnotationsFail(in) == ~StructArgs_from_attrs(in.attrs).ok
FailingFields(in) ==
    {i \in 1..Len(in.fields) : ~FieldWithArgs_from_field(in.fields[i]).ok}
FirstFailingField(in) ==
    CHOOSE i \in FailingFields(in) : \A j \in FailingFields(in) : i <= j
FirstAnnotationError(in) ==
    IF StructAnnotationsFail(in) THEN StructArgs_from_attrs(in.attrs).err
    ELSE FieldWithArgs_from_field(in.fields[FirstFailingField(in)]).err

\* C8: when the struct's or a field's annotations fail to parse, no
\* implementation is emitted and the error is the first one met: the struct's
\* annotations come before the fields, the fields in declaration order.
C8_FailFastNoPartialOutput ==
    (input.syntax_ok /\ (StructAnnotationsFail(input) \/ FailingFields(input) # {})) =>
       \A out \in {absOut, relOut} :
          out.kind # "pending" =>
             /\ out.kind = "compile_error"
             /\ out.impls = << >>
             /\ out.err = FirstAnnotationError(input)

C8_Witness ==
    /\ StructAnnotationsFail(input)
    /\ FailingFields(input) = {1, 2}
    /\ FieldWithArgs_from_field(input.fields[1]).err.kind
         # FieldWithArgs_from_field(input.fields[2]).err.kind
    /\ absOut.kind = "compile_error"
    /\ relOut.kind = "compile_error"
    /\ absOut.err.at = 0

\* C9: a comparison follows its field's cast strategy.  cast_field: both
\* operands cast to the Epsilon type, dispatch on the Epsilon type, tolerances
\* as they are.  cast_value: operands uncast, dispatch on the field's type,
\* tolerances cast to the field's type.  No cast: nothing cast, dispatch on the
\* Epsilon type.
C9_CastStrategyShapesComparison ==
    \A out \in Emitted : \A k \in 1..Len(out.impls) : \A j \in 1..Len(out.impls[k].fields) :
       LET c    == out.impls[k].fields[j]
           i    == c.own_field.ident
           keys == RawKeys(input.fields[i].attrs)
           T    == input.fields[i].ty
           E    == DeclEpsilonType(input)
           tols == IF c.trait = "RelativeEq" THEN {c.epsilon, c.max_relative}
                   ELSE {c.epsilon}
       IN /\ c.other_field.ident = i
          /\ c.own_field.recv = "self" /\ c.other_field.recv = "other"
          /\ "cast_field" \in keys =>
                /\ c.base_type = E
                /\ c.own_field.cast = E /\ c.other_field.cast = E
                /\ \A t \in tols : t.cast = ""
          /\ "cast_value" \in keys =>
                /\ c.base_type = T
                /\ c.own_field.cast = "" /\ c.other_field.cast = ""
                /\ \A t \in tols : t.cast = T
          /\ keys \cap {"cast_field", "cast_value"} = {} =>
                /\ c.base_type = E
                /\ c.own_field.cast = "" /\ c.other_field.cast = ""
                /\ \A t \in tols : t.cast = ""

C9_Witness ==
    /\ relOut.kind = "impls"
    /\ Len(input.fields) = 2
    /\ "cast_field" \in RawKeys(input.fields[1].attrs)
    /\ "cast_value" \in RawKeys(input.fields[2].attrs)
    /\ input.fields[2].ty # DeclEpsilonType(input)
    /\ Len(relOut.impls[2].fields) = 2

====
